---- MODULE Spec2Model ----
(***************************************************************************)
(* Verification model of the registrar core:                               *)
(*   - JudgmentGiver (src/projection/judgment_giver.rs): the projection    *)
(*     that pairs IdentityFullyVerified with RemarkFound events.           *)
(*   - IdentityManager (src/manager.rs): the identity table, its reverse   *)
(*     index and the verification helpers.                                 *)
(*   - run (src/lib.rs): the start-up sequence with the watcher connect    *)
(*     loop and the start of the tasks.                                    *)
(***************************************************************************)
EXTENDS Integers, Sequences, FiniteSets, TLC

VARIABLES
    remarks,            \* JudgmentGiver.remarks : NetworkAddress -> RemarkFound
    pending,            \* JudgmentGiver.pending : NetworkAddress -> OnChainChallenge
    log,                \* the events handed to project so far, in order
    out,                \* what each project call emitted, parallel to log
    identities,         \* IdentityManager.identities : NetworkAddress -> Vec<FieldStatus>
    lookup_addresses,   \* IdentityManager.lookup_addresses : IdentityField -> set of addresses
    ret,                \* the last manager call and what it returned
    pc,                 \* run: the statement the start-up sequence is at
    counter,            \* run: `counter` of the watcher connect loop
    attempts,           \* run: outcome of each Connector::new call so far
    tasks,              \* run: state of each task handed to tokio::spawn
    idle_ticks          \* run: ticks of the final 60 s interval seen so far

correlatorVars == <<remarks, pending, log, out>>
managerVars == <<identities, lookup_addresses, ret>>
runVars == <<pc, counter, attempts, tasks, idle_ticks>>
vars == <<remarks, pending, log, out, identities, lookup_addresses, ret,
          pc, counter, attempts, tasks, idle_ticks>>

(***************************************************************************)
(* Bounds and input domains                                                *)
(***************************************************************************)
MaxEvents == 4

\* The tasks run hands to tokio::spawn, in the order it spawns them.
Tasks == {"manager", "connector", "matrix"}

None == "None"

\* Option<T>: Some(v) or Nothing.
Some(v) == <<v>>

Nothing == <<>>

\* NetworkAddress values (network tag + address string).
NetworkAddress == {"polkadot:alice", "kusama:bob"}

\* Remark / challenge texts seen on chain.
Texts == {"1127233905", "6861321088"}

(***************************************************************************)
(* Judgement correlator                                                    *)
(***************************************************************************)
IdentityFullyVerified(a, c) ==
    [type |-> "IdentityFullyVerified", net_address |-> a, body |-> c]

RemarkFound(a, r) ==
    [type |-> "RemarkFound", net_address |-> a, body |-> r]

JudgementGiven(a) ==
    [type |-> "JudgementGiven", net_address |-> a, body |-> None]

\* Any other EventType (the `_ => {}` arm).
OtherEvent(a) ==
    [type |-> "Other", net_address |-> a, body |-> None]

\* OnChainChallenge::matches_remark: textual comparison of the expected
\* challenge with the remark observed for the same address.
matches_remark(challenge, found) ==
    challenge = found

\* HashMap::remove / HashMap::insert on a map keyed by NetworkAddress.
MapRemove(m, a) == [m EXCEPT ![a] = None]

MapInsert(m, a, v) == [m EXCEPT ![a] = v]

\* What one project call emits: the JudgementCompleted message issued to the
\* broker (with the remark it was built from) and the log line.
Emit(completed, found, level) ==
    [completed |-> completed, found |-> found, level |-> level]

NoEmit == Emit(FALSE, None, "none")

\* Variant of the IdentityFullyVerified arm that stores the challenge into
\* pending only when no remark was queued.
projectIdentityFullyVerified_StoreIfEmpty(r, p, e) ==
    LET a == e.net_address
        found == r[a]
    IN  IF found # None
        THEN [remarks |-> MapRemove(r, a), pending |-> p,
              out |-> Emit(TRUE, found,
                           IF matches_remark(e.body, found) THEN "info" ELSE "warn")]
        ELSE [remarks |-> r, pending |-> MapInsert(p, a, e.body), out |-> NoEmit]

\* Variant of the IdentityFullyVerified arm that reads the queued remark
\* with get instead of remove, leaving it in remarks.
projectIdentityFullyVerified_Peek(r, p, e) ==
    LET a == e.net_address
        found == r[a]
        p1 == MapInsert(p, a, e.body)
    IN  IF found # None
        THEN [remarks |-> r, pending |-> p1,
              out |-> Emit(TRUE, found,
                           IF matches_remark(e.body, found) THEN "info" ELSE "warn")]
        ELSE [remarks |-> r, pending |-> p1, out |-> NoEmit]

\* EventType::IdentityFullyVerified arm.
projectIdentityFullyVerified(r, p, e) ==
    LET a == e.net_address
        found == r[a]
        r1 == MapRemove(r, a)
        p1 == MapInsert(p, a, e.body)
    IN  IF found # None
        THEN [remarks |-> r1, pending |-> p1,
              out |-> Emit(TRUE, found,
                           IF matches_remark(e.body, found) THEN "info" ELSE "warn")]
        ELSE [remarks |-> r1, pending |-> p1, out |-> NoEmit]

\* Variant of the RemarkFound arm that drops the pending challenge when the
\* remark does not match it.
projectRemarkFound_DropOnMismatch(r, p, e) ==
    LET a == e.net_address
        challenge == p[a]
    IN  IF challenge # None
        THEN IF matches_remark(challenge, e.body)
             THEN [remarks |-> r, pending |-> p, out |-> Emit(TRUE, e.body, "info")]
             ELSE [remarks |-> r, pending |-> MapRemove(p, a),
                   out |-> Emit(FALSE, None, "warn")]
        ELSE [remarks |-> MapInsert(r, a, e.body), pending |-> p, out |-> NoEmit]

\* Variant of the RemarkFound arm that keeps the remark already queued for
\* the address (entry().or_insert) instead of replacing it.
projectRemarkFound_KeepFirst(r, p, e) ==
    LET a == e.net_address
        challenge == p[a]
    IN  IF challenge # None
        THEN IF matches_remark(challenge, e.body)
             THEN [remarks |-> r, pending |-> p, out |-> Emit(TRUE, e.body, "info")]
             ELSE [remarks |-> r, pending |-> p, out |-> Emit(FALSE, None, "warn")]
        ELSE [remarks |-> (IF r[a] = None THEN MapInsert(r, a, e.body) ELSE r),
              pending |-> p, out |-> NoEmit]

\* Variant of the RemarkFound arm that logs a matching remark but does not
\* issue JudgementCompleted.
projectRemarkFound_Silent(r, p, e) ==
    LET a == e.net_address
        challenge == p[a]
    IN  IF challenge # None
        THEN IF matches_remark(challenge, e.body)
             THEN [remarks |-> r, pending |-> p, out |-> Emit(FALSE, None, "info")]
             ELSE [remarks |-> r, pending |-> p, out |-> Emit(FALSE, None, "warn")]
        ELSE [remarks |-> MapInsert(r, a, e.body), pending |-> p, out |-> NoEmit]

\* EventType::RemarkFound arm.
projectRemarkFound(r, p, e) ==
    LET a == e.net_address
        challenge == p[a]
    IN  IF challenge # None
        THEN IF matches_remark(challenge, e.body)
             THEN [remarks |-> r, pending |-> p, out |-> Emit(TRUE, e.body, "info")]
             ELSE [remarks |-> r, pending |-> p, out |-> Emit(FALSE, None, "warn")]
        ELSE [remarks |-> MapInsert(r, a, e.body), pending |-> p, out |-> NoEmit]

\* Variant of the JudgementGiven arm that clears both maps entirely
\* (HashMap::clear) instead of removing the one address.
projectJudgementGiven_ClearAll(r, p, e) ==
    [remarks |-> [a \in DOMAIN r |-> None],
     pending |-> [a \in DOMAIN p |-> None],
     out |-> NoEmit]

\* Variant of the JudgementGiven arm that forgets to clear pending.
projectJudgementGiven_RemarksOnly(r, p, e) ==
    [remarks |-> MapRemove(r, e.net_address), pending |-> p, out |-> NoEmit]

\* Variant of the JudgementGiven arm that forgets to clear remarks.
projectJudgementGiven_PendingOnly(r, p, e) ==
    [remarks |-> r, pending |-> MapRemove(p, e.net_address), out |-> NoEmit]

\* EventType::JudgementGiven arm.
projectJudgementGiven(r, p, e) ==
    [remarks |-> MapRemove(r, e.net_address),
     pending |-> MapRemove(p, e.net_address),
     out |-> NoEmit]

\* JudgmentGiver::project.
project(r, p, e) ==
    CASE e.type = "IdentityFullyVerified" -> projectIdentityFullyVerified(r, p, e)
      [] e.type = "RemarkFound" -> projectRemarkFound(r, p, e)
      [] e.type = "JudgementGiven" -> projectJudgementGiven(r, p, e)
      [] OTHER -> [remarks |-> r, pending |-> p, out |-> NoEmit]

\* project applied, from the empty maps, to a sequence of events one after
\* the other: the maps it ends with and what each call emitted.
RECURSIVE Replay(_)
Replay(events) ==
    IF events = <<>>
    THEN [remarks |-> [a \in NetworkAddress |-> None],
          pending |-> [a \in NetworkAddress |-> None],
          out |-> <<>>]
    ELSE LET n == Len(events)
             s == Replay(SubSeq(events, 1, n - 1))
             res == project(s.remarks, s.pending, events[n])
         IN  [remarks |-> res.remarks, pending |-> res.pending,
              out |-> Append(s.out, res.out)]

Project(e) ==
    /\ Len(log) < MaxEvents
    /\ LET res == project(remarks, pending, e)
       IN  /\ remarks' = res.remarks
           /\ pending' = res.pending
           /\ out' = Append(out, res.out)
    /\ log' = Append(log, e)
    /\ UNCHANGED managerVars
    /\ UNCHANGED runVars

OnIdentityFullyVerified ==
    \E a \in NetworkAddress, c \in Texts : Project(IdentityFullyVerified(a, c))

OnRemarkFound ==
    \E a \in NetworkAddress, r \in Texts : Project(RemarkFound(a, r))

OnJudgementGiven ==
    \E a \in NetworkAddress : Project(JudgementGiven(a))

OnOtherEvent ==
    \E a \in NetworkAddress : Project(OtherEvent(a))

Init ==
    /\ remarks = [a \in NetworkAddress |-> None]
    /\ pending = [a \in NetworkAddress |-> None]
    /\ log = <<>>
    /\ out = <<>>
    /\ identities = <<>>
    /\ lookup_addresses = <<>>
    /\ ret = [op |-> "new", net_address |-> None, field |-> None,
              arg |-> None, result |-> None]
    /\ pc = "setup"
    /\ counter = 0
    /\ attempts = <<>>
    /\ tasks = [t \in Tasks |-> "unspawned"]
    /\ idle_ticks = 0

NextCorrelator ==
    \/ OnIdentityFullyVerified
    \/ OnRemarkFound
    \/ OnJudgementGiven
    \/ OnOtherEvent

SpecCorrelator == Init /\ [][NextCorrelator]_vars

(***************************************************************************)
(* Domain model (src/manager.rs)                                           *)
(***************************************************************************)
\* Validity
Valid == "Valid"

Invalid == "Invalid"

Unconfirmed == "Unconfirmed"

Validity == {Valid, Invalid, Unconfirmed}

\* IdentityField variants; Image and Additional carry no address.
Matrix(address) == [kind |-> "Matrix", address |-> address]

Email(address) == [kind |-> "Email", address |-> address]

Image == [kind |-> "Image", address |-> None]

FieldAlice == Matrix("@alice:matrix.org")

FieldBob == Matrix("@bob:matrix.org")

FieldMail == Email("alice@email.com")

FieldRegistrar == Matrix("@registrar:matrix.org")

IdentityField == {FieldAlice, FieldBob, FieldMail, Image}

\* Strings are sequences of characters, so that str::contains is computed.
Token == <<"1", "2">>

TokenBack == <<"3", "4">>

\* Another reply token the service could have drawn for the same challenge.
TokenBackAlt == <<"5", "6">>

\* ChallengeStatus variants.
ExpectMessage(expected_message, from, to, status) ==
    [type |-> "ExpectMessage", expected_message |-> expected_message,
     from |-> from, to |-> to, status |-> status]

BackAndForth(expected_message, expected_message_back, from, to, first, second) ==
    [type |-> "BackAndForth", expected_message |-> expected_message,
     expected_message_back |-> expected_message_back, from |-> from, to |-> to,
     first_check_status |-> first, second_check_status |-> second]

CheckDisplayName(status, similarities) ==
    [type |-> "CheckDisplayName", status |-> status, similarities |-> similarities]

FieldStatus(field, is_permitted, challenge) ==
    [field |-> field, is_permitted |-> is_permitted, challenge |-> challenge]

IdentityState(net_address, fields) ==
    [net_address |-> net_address, fields |-> fields]

\* Variant of is_valid that accepts a BackAndForth challenge as soon as one
\* of its two checks is Valid.
is_valid_Either(fs) ==
    IF fs.challenge.type = "BackAndForth"
    THEN \/ fs.challenge.first_check_status = Valid
         \/ fs.challenge.second_check_status = Valid
    ELSE fs.challenge.status = Valid

\* FieldStatus::is_valid
is_valid(fs) ==
    IF fs.challenge.type = "BackAndForth"
    THEN /\ fs.challenge.first_check_status = Valid
         /\ fs.challenge.second_check_status = Valid
    ELSE fs.challenge.status = Valid

\* FieldStatus::set_validity: the status of the challenge (the first check
\* of a BackAndForth challenge) is overwritten with the given validity.
set_validity(fs, validity) ==
    CASE fs.challenge.type = "ExpectMessage" ->
            [fs EXCEPT !.challenge.status = validity]
      [] fs.challenge.type = "BackAndForth" ->
            [fs EXCEPT !.challenge.first_check_status = validity]
      [] fs.challenge.type = "CheckDisplayName" ->
            [fs EXCEPT !.challenge.status = validity]

\* What the derived Serialize writes (serde_json objects as records).
\* Validity: the variants under their serde names.
SerializeValidity(v) ==
    CASE v = Valid -> "valid"
      [] v = Invalid -> "invalid"
      [] v = Unconfirmed -> "unconfirmed"

\* IdentityField: adjacently tagged, `type` and `address`; the unit variant
\* Image has no content.
SerializeIdentityField(f) ==
    CASE f.kind = "Matrix" -> [type |-> "matrix", address |-> Some(f.address)]
      [] f.kind = "Email" -> [type |-> "email", address |-> Some(f.address)]
      [] f.kind = "Image" -> [type |-> "image", address |-> Nothing]

\* Variant of the ChallengeStatus serializer without the skip_serializing
\* attribute on expected_message_back.
SerializeChallengeStatus_KeepBack(c) ==
    CASE c.type = "ExpectMessage" ->
            [type |-> "expect_message",
             state |-> [expected_message |-> c.expected_message,
                        from |-> SerializeIdentityField(c.from),
                        to |-> SerializeIdentityField(c.to),
                        status |-> SerializeValidity(c.status)]]
      [] c.type = "BackAndForth" ->
            [type |-> "back_and_forth",
             state |-> [expected_message |-> c.expected_message,
                        expected_message_back |-> c.expected_message_back,
                        from |-> SerializeIdentityField(c.from),
                        to |-> SerializeIdentityField(c.to),
                        first_check_status |-> SerializeValidity(c.first_check_status),
                        second_check_status |-> SerializeValidity(c.second_check_status)]]
      [] c.type = "CheckDisplayName" ->
            [type |-> "display_name_check",
             state |-> [status |-> SerializeValidity(c.status),
                        similarities |-> c.similarities]]

\* ChallengeStatus: adjacently tagged, `type` and `state`; the state of a
\* BackAndForth challenge is written without expected_message_back
\* (#[serde(skip_serializing)]).
SerializeChallengeStatus(c) ==
    CASE c.type = "ExpectMessage" ->
            [type |-> "expect_message",
             state |-> [expected_message |-> c.expected_message,
                        from |-> SerializeIdentityField(c.from),
                        to |-> SerializeIdentityField(c.to),
                        status |-> SerializeValidity(c.status)]]
      [] c.type = "BackAndForth" ->
            [type |-> "back_and_forth",
             state |-> [expected_message |-> c.expected_message,
                        from |-> SerializeIdentityField(c.from),
                        to |-> SerializeIdentityField(c.to),
                        first_check_status |-> SerializeValidity(c.first_check_status),
                        second_check_status |-> SerializeValidity(c.second_check_status)]]
      [] c.type = "CheckDisplayName" ->
            [type |-> "display_name_check",
             state |-> [status |-> SerializeValidity(c.status),
                        similarities |-> c.similarities]]

SerializeFieldStatus(fs) ==
    [field |-> SerializeIdentityField(fs.field),
     is_permitted |-> fs.is_permitted,
     challenge |-> SerializeChallengeStatus(fs.challenge)]

\* IdentityState: the address (the tagged network/address pair, one string
\* here) and the list of serialized statuses.
SerializeIdentityState(state) ==
    [net_address |-> state.net_address,
     fields |-> [i \in 1..Len(state.fields) |-> SerializeFieldStatus(state.fields[i])]]

\* str::contains(hay, needle)
str_contains(hay, needle) ==
    \E i \in 0..(Len(hay) - Len(needle)) :
        SubSeq(hay, i + 1, i + Len(needle)) = needle

\* ExpectedMessage::contains: the first part of the message for which
\* `self.0.contains(&part.0)` holds, or None.
contains(expected, message) ==
    LET hits == {i \in 1..Len(message) : str_contains(expected, message[i])}
    IN  IF hits = {} THEN Nothing
        ELSE Some(message[CHOOSE i \in hits : \A j \in hits : i <= j])

(***************************************************************************)
(* Inputs of the manager operations                                        *)
(***************************************************************************)
ExpectStatus(field, status) ==
    FieldStatus(field, TRUE, ExpectMessage(Token, field, FieldRegistrar, status))

MailStatus(first, second) ==
    FieldStatus(FieldMail, TRUE,
                BackAndForth(Token, TokenBack, FieldMail, FieldRegistrar, first, second))

\* Field statuses handed to update_field.
FieldStatusInputs ==
    {ExpectStatus(FieldAlice, Unconfirmed), ExpectStatus(FieldAlice, Valid),
     ExpectStatus(FieldBob, Valid), MailStatus(Valid, Valid),
     FieldStatus(FieldAlice, TRUE, CheckDisplayName(Unconfirmed, None))}

\* Field lists of the identities handed to insert_identity.
FieldLists ==
    {<<ExpectStatus(FieldAlice, Unconfirmed)>>,
     <<ExpectStatus(FieldAlice, Valid), MailStatus(Valid, Unconfirmed)>>,
     <<ExpectStatus(FieldAlice, Valid), ExpectStatus(Image, Unconfirmed)>>,
     <<ExpectStatus(FieldBob, Unconfirmed), MailStatus(Valid, Valid)>>,
     <<ExpectStatus(FieldAlice, Unconfirmed), ExpectStatus(FieldAlice, Valid)>>}

\* Messages delivered by the chat transport, as lists of parts.
ProvidedMessages ==
    {<< <<"h", "i">>, Token >>, << <<"w">> >>}

(***************************************************************************)
(* Identity manager (src/manager.rs)                                       *)
(***************************************************************************)
Ok(v) == [ok |-> TRUE, value |-> v]

Err(msg) == [ok |-> FALSE, value |-> msg]

\* What a manager method leaves behind: the table, the index, its result.
After(ids, idx, result) ==
    [identities |-> ids, lookup_addresses |-> idx, result |-> result]

\* HashMap::insert on the identity table: a map whose domain is the set of
\* addresses present.
MapPut(m, k, v) == [x \in (DOMAIN m) \cup {k} |-> IF x = k THEN v ELSE m[x]]

FieldsOf(fields) == {fields[i].field : i \in 1..Len(fields)}

\* Position of the first status of the list whose field equals `field`
\* (iter().find), 0 when there is none.
FindField(fields, field) ==
    LET hits == {i \in 1..Len(fields) : fields[i].field = field}
    IN  IF hits = {} THEN 0 ELSE CHOOSE i \in hits : \A j \in hits : i <= j

\* Variant of insert_identity whose or_insert creates the index entry of a
\* new field without the inserted address.
insert_identity_EmptyEntry(ids, idx, identity) ==
    LET a == identity.net_address
        claimed == {identity.fields[i].field : i \in 1..Len(identity.fields)}
        idx1 == [f \in (DOMAIN idx) \cup claimed |->
                    IF f \in claimed
                    THEN (IF f \in DOMAIN idx THEN idx[f] \cup {a} ELSE {})
                    ELSE idx[f]]
    IN  After([x \in (DOMAIN ids) \cup {a} |-> IF x = a THEN identity.fields ELSE ids[x]],
              idx1, "unit")

\* IdentityManager::insert_identity. The index keeps references to the keys
\* and fields stored in the table; it is modelled by the values they denote.
insert_identity(ids, idx, identity) ==
    LET a == identity.net_address
        claimed == FieldsOf(identity.fields)
        idx1 == [f \in (DOMAIN idx) \cup claimed |->
                    IF f \in claimed
                    THEN (IF f \in DOMAIN idx THEN idx[f] \cup {a} ELSE {a})
                    ELSE idx[f]]
    IN  After(MapPut(ids, a, identity.fields), idx1, "unit")

\* Variant of update_field that adds the status when the identity has no
\* status for its field (an upsert) instead of reporting the error.
update_field_Upsert(ids, idx, net_address, field_status) ==
    IF net_address \notin DOMAIN ids
    THEN After(ids, idx, Err("network address not found"))
    ELSE LET i == FindField(ids[net_address], field_status.field)
         IN  IF i = 0
             THEN After([ids EXCEPT ![net_address] = Append(@, field_status)], idx,
                        Ok("unit"))
             ELSE After([ids EXCEPT ![net_address][i] = field_status], idx, Ok("unit"))

\* IdentityManager::update_field
update_field(ids, idx, net_address, field_status) ==
    IF net_address \notin DOMAIN ids
    THEN After(ids, idx, Err("network address not found"))
    ELSE LET i == FindField(ids[net_address], field_status.field)
         IN  IF i = 0
             THEN After(ids, idx, Err("field not found"))
             ELSE After([ids EXCEPT ![net_address][i] = field_status], idx, Ok("unit"))

\* IdentityManager::lookup_field_status
lookup_field_status(ids, net_address, field) ==
    IF net_address \notin DOMAIN ids THEN Nothing
    ELSE LET i == FindField(ids[net_address], field)
         IN  IF i = 0 THEN Nothing ELSE Some(ids[net_address][i])

\* IdentityManager::lookup_field_status_mut
lookup_field_status_mut(ids, net_address, field) ==
    lookup_field_status(ids, net_address, field)

\* IdentityManager::lookup_addresses (the method)
lookup_addresses_of(idx, field) ==
    IF field \in DOMAIN idx THEN Some(idx[field]) ELSE Nothing

\* IdentityManager::lookup_full_state
lookup_full_state(ids, idx, net_address) ==
    After(ids, idx,
          IF net_address \notin DOMAIN ids THEN Nothing
          ELSE Some(IdentityState(net_address, ids[net_address])))

VerificationOutcome(net_address, field_status) ==
    [net_address |-> net_address, field_status |-> field_status]

\* Variant of verify_message that marks the challenge Valid as soon as the
\* message matches, instead of leaving that to set_verified.
verify_message_Marking(ids, idx, field, message) ==
    LET net_addresses == lookup_addresses_of(idx, field)
        examined ==
            IF net_addresses = Nothing THEN {}
            ELSE {a \in net_addresses[1] :
                    LET fs == lookup_field_status(ids, a, field)
                    IN  /\ fs # Nothing
                        /\ fs[1].challenge.type = "ExpectMessage"
                        /\ fs[1].challenge.status # Valid}
        matched ==
            {a \in examined :
                contains(lookup_field_status(ids, a, field)[1].challenge.expected_message,
                         message) # Nothing}
        outcomes ==
            {VerificationOutcome(a, lookup_field_status(ids, a, field)[1]) : a \in examined}
        ids1 == [a \in DOMAIN ids |->
                    IF a \in matched
                    THEN [ids[a] EXCEPT ![FindField(ids[a], field)].challenge.status = Valid]
                    ELSE ids[a]]
    IN  After(ids1, idx, outcomes)

\* IdentityManager::verify_message (takes &self: the table and the index
\* come back as they were). Both branches of the contains test push the
\* same outcome.
verify_message(ids, idx, field, message) ==
    LET net_addresses == lookup_addresses_of(idx, field)
        examined ==
            IF net_addresses = Nothing THEN {}
            ELSE {a \in net_addresses[1] :
                    LET fs == lookup_field_status(ids, a, field)
                    IN  /\ fs # Nothing
                        /\ fs[1].challenge.type = "ExpectMessage"
                        /\ fs[1].challenge.status # Valid}
        outcomes ==
            {LET field_status == lookup_field_status(ids, a, field)[1]
             IN  IF contains(field_status.challenge.expected_message, message) # Nothing
                 THEN VerificationOutcome(a, field_status)
                 ELSE VerificationOutcome(a, field_status) :
             a \in examined}
    IN  After(ids, idx, outcomes)

\* IdentityManager::set_verified (the assignment is commented out in the
\* source: only the lookup result is reported).
set_verified(ids, idx, net_address, field) ==
    IF lookup_field_status_mut(ids, net_address, field) # Nothing
    THEN After(ids, idx, TRUE)
    ELSE After(ids, idx, FALSE)

\* IdentityManager::is_fully_verified
is_fully_verified(ids, idx, net_address) ==
    IF net_address \notin DOMAIN ids
    THEN After(ids, idx, Err("TargetAddressNotFound"))
    ELSE After(ids, idx,
               Ok(\E i \in 1..Len(ids[net_address]) : is_valid(ids[net_address][i])))

\* IdentityState::set_validity: the first status whose field equals target
\* gets the validity; the state after the call and Ok(()) or the error.
IdentityState_set_validity(state, target, validity) ==
    LET i == FindField(state.fields, target)
    IN  IF i = 0
        THEN [state |-> state, result |-> Err("Target field was not found")]
        ELSE [state |-> [state EXCEPT !.fields[i] = set_validity(@, validity)],
              result |-> Ok("unit")]

\* IdentityManager::remove_identity
remove_identity(ids, idx, net_address) ==
    After(ids, idx, FALSE)

\* One call of a manager method: its effect on the table and the index, and
\* the record of the call with its result.
Call(op, net_address, field, arg, res) ==
    /\ identities' = res.identities
    /\ lookup_addresses' = res.lookup_addresses
    /\ ret' = [op |-> op, net_address |-> net_address, field |-> field,
               arg |-> arg, result |-> res.result]
    /\ UNCHANGED correlatorVars
    /\ UNCHANGED runVars

InsertIdentity ==
    \E a \in NetworkAddress, fields \in FieldLists :
        Call("insert_identity", a, None, fields,
             insert_identity(identities, lookup_addresses, IdentityState(a, fields)))

UpdateField ==
    \E a \in NetworkAddress, fs \in FieldStatusInputs :
        Call("update_field", a, fs.field, fs,
             update_field(identities, lookup_addresses, a, fs))

LookupFullState ==
    \E a \in NetworkAddress :
        Call("lookup_full_state", a, None, None,
             lookup_full_state(identities, lookup_addresses, a))

VerifyMessage ==
    \E f \in IdentityField, m \in ProvidedMessages :
        Call("verify_message", None, f, m,
             verify_message(identities, lookup_addresses, f, m))

SetVerified ==
    \E a \in NetworkAddress, f \in IdentityField :
        Call("set_verified", a, f, None,
             set_verified(identities, lookup_addresses, a, f))

IsFullyVerified ==
    \E a \in NetworkAddress :
        Call("is_fully_verified", a, None, None,
             is_fully_verified(identities, lookup_addresses, a))

RemoveIdentity ==
    \E a \in NetworkAddress :
        Call("remove_identity", a, None, None,
             remove_identity(identities, lookup_addresses, a))

NextManager ==
    \/ InsertIdentity
    \/ UpdateField
    \/ LookupFullState
    \/ VerifyMessage
    \/ SetVerified
    \/ IsFullyVerified
    \/ RemoveIdentity

SpecManager == Init /\ [][NextManager]_vars

(***************************************************************************)
(* The pure helpers, applied to enumerated inputs                          *)
(***************************************************************************)
MaxStrLen == 2

MaxParts == 2

Alphabet == {"1", "2"}

\* Strings of at most n characters.
Strings(n) == UNION {[1..k -> Alphabet] : k \in 0..n}

\* Expected tokens (non-empty) and provided messages of at most MaxParts parts.
ExpectedMessages == Strings(MaxStrLen) \ {<<>>}

Messages == UNION {[1..k -> Strings(MaxStrLen)] : k \in 0..MaxParts}

\* Every challenge shape with every combination of check statuses.
AllFieldStatuses ==
    {ExpectStatus(FieldAlice, s) : s \in Validity}
        \cup {MailStatus(f, s) : f \in Validity, s \in Validity}
        \cup {FieldStatus(FieldAlice, TRUE, CheckDisplayName(s, None)) : s \in Validity}

\* One evaluation of a pure helper on a fresh input, recorded with its
\* argument.
Eval(op, arg, result) ==
    /\ ret.op = "new"
    /\ ret' = [op |-> op, net_address |-> None, field |-> None,
               arg |-> arg, result |-> result]
    /\ UNCHANGED <<identities, lookup_addresses>>
    /\ UNCHANGED correlatorVars
    /\ UNCHANGED runVars

Contains ==
    \E expected \in ExpectedMessages, message \in Messages :
        Eval("contains", [expected |-> expected, message |-> message],
             contains(expected, message))

IsValid ==
    \E fs \in AllFieldStatuses : Eval("is_valid", fs, is_valid(fs))

SetValidity ==
    \E fs \in AllFieldStatuses, validity \in Validity :
        Eval("set_validity", [status |-> fs, validity |-> validity],
             set_validity(fs, validity))

IdentityStateSetValidity ==
    \E a \in NetworkAddress, fields \in FieldLists,
       target \in IdentityField, validity \in Validity :
        Eval("IdentityState::set_validity",
             [state |-> IdentityState(a, fields), target |-> target,
              validity |-> validity],
             IdentityState_set_validity(IdentityState(a, fields), target, validity))

NextPure ==
    \/ Contains
    \/ IsValid
    \/ SetValidity
    \/ IdentityStateSetValidity

SpecPure == Init /\ [][NextPure]_vars

(***************************************************************************)
(* Start-up (src/lib.rs, run)                                              *)
(***************************************************************************)
\* Ticks of the final interval loop that are followed.
MaxIdleTicks == 2

\* The value of counter at which a failed attempt panics.
PanicAtCounter == 2

\* Database::new, IdentityManager::new (either may return early with `?`)
\* and the four register_comms calls.
Setup ==
    /\ pc = "setup"
    /\ \E ok \in BOOLEAN : pc' = IF ok THEN "tick" ELSE "returned_err"
    /\ UNCHANGED <<counter, attempts, tasks, idle_ticks>>
    /\ UNCHANGED <<correlatorVars, managerVars>>

\* interval.tick().await at the head of the connect loop.
Tick ==
    /\ pc = "tick"
    /\ pc' = "connect"
    /\ UNCHANGED <<counter, attempts, tasks, idle_ticks>>
    /\ UNCHANGED <<correlatorVars, managerVars>>

\* Variant of the loop body that panics only when counter has reached 3.
Connect_FourAttempts ==
    /\ pc = "connect"
    /\ \E ok \in BOOLEAN :
          /\ attempts' = Append(attempts, ok)
          /\ IF ok
             THEN pc' = "matrix_setup" /\ counter' = counter
             ELSE IF counter = PanicAtCounter + 1
                  THEN pc' = "panicked" /\ counter' = counter
                  ELSE pc' = "tick" /\ counter' = counter + 1
    /\ UNCHANGED <<tasks, idle_ticks>>
    /\ UNCHANGED <<correlatorVars, managerVars>>

\* The rest of the loop body: Connector::new(..).await returns Ok (break) or
\* an error (warn, then panic when counter == 2, else counter += 1).
Connect ==
    /\ pc = "connect"
    /\ \E ok \in BOOLEAN :
          /\ attempts' = Append(attempts, ok)
          /\ IF ok
             THEN pc' = "matrix_setup" /\ counter' = counter
             ELSE IF counter = PanicAtCounter
                  THEN pc' = "panicked" /\ counter' = counter
                  ELSE pc' = "tick" /\ counter' = counter + 1
    /\ UNCHANGED <<tasks, idle_ticks>>
    /\ UNCHANGED <<correlatorVars, managerVars>>

\* MatrixClient::new(..).await? and the TestClient data generation.
MatrixSetup ==
    /\ pc = "matrix_setup"
    /\ \E ok \in BOOLEAN : pc' = IF ok THEN "spawn_manager" ELSE "returned_err"
    /\ UNCHANGED <<counter, attempts, tasks, idle_ticks>>
    /\ UNCHANGED <<correlatorVars, managerVars>>

\* One tokio::spawn call of run.
Spawn(at, task, then) ==
    /\ pc = at
    /\ tasks' = [tasks EXCEPT ![task] = "spawned"]
    /\ pc' = then
    /\ UNCHANGED <<counter, attempts, idle_ticks>>
    /\ UNCHANGED <<correlatorVars, managerVars>>

SpawnManager == Spawn("spawn_manager", "manager", "spawn_connector")

SpawnConnector == Spawn("spawn_connector", "connector", "spawn_matrix")

SpawnMatrix == Spawn("spawn_matrix", "matrix", "idle")

\* The runtime polls a spawned task for the first time: its start() runs.
TaskStart ==
    \E t \in Tasks :
        /\ tasks[t] = "spawned"
        /\ tasks' = [tasks EXCEPT ![t] = "running"]
        /\ UNCHANGED <<pc, counter, attempts, idle_ticks>>
        /\ UNCHANGED <<correlatorVars, managerVars>>

\* The future of a task completes (start() returned or panicked).
TaskEnd ==
    \E t \in Tasks :
        /\ tasks[t] = "running"
        /\ tasks' = [tasks EXCEPT ![t] = "finished"]
        /\ UNCHANGED <<pc, counter, attempts, idle_ticks>>
        /\ UNCHANGED <<correlatorVars, managerVars>>

\* interval.tick().await of the final loop.
IdleTick ==
    /\ pc = "idle"
    /\ idle_ticks < MaxIdleTicks
    /\ idle_ticks' = idle_ticks + 1
    /\ UNCHANGED <<pc, counter, attempts, tasks>>
    /\ UNCHANGED <<correlatorVars, managerVars>>

NextRun ==
    \/ Setup
    \/ Tick
    \/ Connect
    \/ MatrixSetup
    \/ SpawnManager
    \/ SpawnConnector
    \/ SpawnMatrix
    \/ TaskStart
    \/ TaskEnd
    \/ IdleTick

\* The runtime keeps polling run: a tick that is due and a connection
\* attempt that has returned are eventually taken.
SpecRun == Init /\ [][NextRun]_vars /\ WF_vars(Tick) /\ WF_vars(Connect)

(***************************************************************************)
(* Observations over the processed event log                               *)
(***************************************************************************)
\* Positions in the log of the events the projection handles for address a.
Idx(a) ==
    {i \in 1..Len(log) : log[i].net_address = a /\ log[i].type # "Other"}

\* The events handled for address a, in arrival order.
EventsFor(a) ==
    SelectSeq(log, LAMBDA e : e.net_address = a /\ e.type # "Other")

\* Positions at which a JudgementCompleted was issued for address a.
CompletedAt(a) == {i \in Idx(a) : out[i].completed}

SetMax(S) == CHOOSE x \in S : \A y \in S : y <= x

\* C1: from the empty correlator, one IdentityFullyVerified(addr, C) and one
\* RemarkFound(addr, R) with C matching R, in either arrival order, make
\* project issue exactly one JudgementCompleted for addr.
C1_ExactlyOnce ==
    \A a \in NetworkAddress, c \in Texts, r \in Texts :
        ( /\ matches_remark(c, r)
          /\ EventsFor(a) \in {<<IdentityFullyVerified(a, c), RemarkFound(a, r)>>,
                               <<RemarkFound(a, r), IdentityFullyVerified(a, c)>>} )
        => Cardinality(CompletedAt(a)) = 1

\* Both arrival orders have happened (one per address) and each produced
\* its single completion.
C1_Witness ==
    \E a \in NetworkAddress, b \in NetworkAddress, c \in Texts :
        /\ a # b
        /\ EventsFor(a) = <<IdentityFullyVerified(a, c), RemarkFound(a, c)>>
        /\ EventsFor(b) = <<RemarkFound(b, c), IdentityFullyVerified(b, c)>>
        /\ Cardinality(CompletedAt(a)) = 1
        /\ Cardinality(CompletedAt(b)) = 1

\* C2: for one address, between two JudgementGiven events (or before the
\* first), at most one JudgementCompleted is issued, whatever sequence of
\* IdentityFullyVerified and RemarkFound events (duplicates included)
\* arrives.
C2_AtMostOneJudgement ==
    \A a \in NetworkAddress :
        \A i \in CompletedAt(a), j \in CompletedAt(a) :
            i < j => \E k \in Idx(a) : i < k /\ k < j /\ log[k].type = "JudgementGiven"

\* C3: a JudgementCompleted is issued only in a step in which the observed
\* remark matches the expected challenge of the same address (the queued
\* remark against the event's challenge, or the event's remark against the
\* pending challenge).
C3_NoSuccessWithoutMatch ==
    [][LET e == log'[Len(log')]
           o == out'[Len(out')]
           a == e.net_address
       IN  o.completed =>
             \/ /\ e.type = "IdentityFullyVerified"
                /\ remarks[a] # None
                /\ matches_remark(e.body, remarks[a])
             \/ /\ e.type = "RemarkFound"
                /\ pending[a] # None
                /\ matches_remark(pending[a], e.body)]_vars

\* C4: for every address at most one of remarks[address] and
\* pending[address] is populated.
C4_MapExclusivity ==
    \A a \in NetworkAddress : ~(remarks[a] # None /\ pending[a] # None)

\* A remark was queued for an address and the verified event then arrived:
\* the remark left remarks and the challenge sits in pending.
C4_Witness ==
    \E a \in NetworkAddress :
        /\ Len(EventsFor(a)) >= 2
        /\ EventsFor(a)[1].type = "RemarkFound"
        /\ EventsFor(a)[2].type = "IdentityFullyVerified"
        /\ pending[a] # None
        /\ remarks[a] = None

\* The last handled event of address a, and the one before it.
LastFor(a) == SetMax(Idx(a))

PrevFor(a) == SetMax(Idx(a) \ {LastFor(a)})

\* C8: once JudgementGiven(addr) is processed neither map holds addr (also
\* when it is processed twice), and the RemarkFound or IdentityFullyVerified
\* that follows it for addr is stored and issues nothing, as from the empty
\* correlator.
C8_Cleanup ==
    \A a \in NetworkAddress :
        /\ (Idx(a) # {} /\ log[LastFor(a)].type = "JudgementGiven")
             => (remarks[a] = None /\ pending[a] = None)
        /\ ( /\ Cardinality(Idx(a)) >= 2
             /\ log[PrevFor(a)].type = "JudgementGiven" )
             => LET e == log[LastFor(a)]
                    o == out[LastFor(a)]
                IN  /\ e.type = "RemarkFound"
                         => (remarks[a] = e.body /\ pending[a] = None /\ o = NoEmit)
                    /\ e.type = "IdentityFullyVerified"
                         => (pending[a] = e.body /\ remarks[a] = None /\ o = NoEmit)

\* An address that had a pending challenge and a completion was judged, and
\* a new remark then arrived for it.
C8_Witness ==
    \E a \in NetworkAddress :
        /\ Cardinality(Idx(a)) >= 4
        /\ CompletedAt(a) # {}
        /\ log[PrevFor(a)].type = "JudgementGiven"
        /\ log[LastFor(a)].type = "RemarkFound"
        /\ remarks[a] = log[LastFor(a)].body

\* The correlator maps after the first n events of the log.
StateAfter(n) == Replay(SubSeq(log, 1, n))

\* Position j holds a RemarkFound for address a that matches challenge c,
\* and only RemarkFound events were handled for a after position i.
LaterMatchingRemark(a, i, j, c) ==
    /\ j > i
    /\ log[j].type = "RemarkFound"
    /\ matches_remark(c, log[j].body)
    /\ \A k \in Idx(a) : (i < k /\ k < j) => log[k].type = "RemarkFound"

\* C16: IdentityFullyVerified(address, challenge) removes the queued remark
\* of the address, matching or not, and in that case does not populate
\* pending[address]; it stores the challenge into pending[address] only
\* when no remark was queued.
C16_VerifiedPopsOrStores ==
    [][LET e == log'[Len(log')]
           a == e.net_address
       IN  e.type = "IdentityFullyVerified" =>
             IF remarks[a] # None
             THEN remarks'[a] = None /\ pending'[a] = pending[a]
             ELSE remarks'[a] = None /\ pending'[a] = e.body]_vars

\* C17: a RemarkFound(address, R) that does not match the pending challenge
\* C leaves pending[address] = C and remarks[address] empty, issues no
\* completion, and a later RemarkFound(address, R') with R' matching C
\* issues the completion.
C17_MismatchKeepsPending ==
    \A a \in NetworkAddress :
        \A i \in Idx(a) :
            LET c == StateAfter(i - 1).pending[a]
            IN  ( /\ log[i].type = "RemarkFound"
                  /\ c # None
                  /\ ~matches_remark(c, log[i].body) )
                => /\ StateAfter(i).pending[a] = c
                   /\ StateAfter(i).remarks[a] = None
                   /\ ~out[i].completed
                   /\ \A j \in Idx(a) :
                         LaterMatchingRemark(a, i, j, c) => out[j].completed

\* A challenge was pending, a mismatching remark arrived and then the
\* matching one, which alone issued the completion.
C17_Witness ==
    \E a \in NetworkAddress, c \in Texts, r \in Texts :
        /\ ~matches_remark(c, r)
        /\ EventsFor(a) = <<IdentityFullyVerified(a, c), RemarkFound(a, r), RemarkFound(a, c)>>
        /\ Cardinality(CompletedAt(a)) = 1
        /\ out[LastFor(a)].completed
        /\ pending[a] = c

\* C18: after a pairing for an address failed the comparison, in either arm
\* (also a mismatching remark queued before IdentityFullyVerified(address,
\* C) arrived), a later RemarkFound(address, R) with R matching C is paired
\* with C and issues the completion, without a new IdentityFullyVerified.
C18_MismatchNeverBlocks ==
    \A a \in NetworkAddress :
        \A i \in Idx(a) :
            LET before == StateAfter(i - 1)
                e == log[i]
                failed ==
                    \/ /\ e.type = "IdentityFullyVerified"
                       /\ before.remarks[a] # None
                       /\ ~matches_remark(e.body, before.remarks[a])
                    \/ /\ e.type = "RemarkFound"
                       /\ before.pending[a] # None
                       /\ ~matches_remark(before.pending[a], e.body)
                c == IF e.type = "IdentityFullyVerified" THEN e.body
                     ELSE before.pending[a]
            IN  failed =>
                  \A j \in Idx(a) :
                      LaterMatchingRemark(a, i, j, c)
                          => out[j] = Emit(TRUE, log[j].body, "info")

\* A remark was queued, the verified event arrived with a challenge it does
\* not match, and the matching remark that followed issued a completion.
C18_Witness ==
    \E a \in NetworkAddress, c \in Texts, r \in Texts :
        /\ ~matches_remark(c, r)
        /\ EventsFor(a) = <<RemarkFound(a, r), IdentityFullyVerified(a, c), RemarkFound(a, c)>>
        /\ out[LastFor(a)] = Emit(TRUE, c, "info")

\* C19: RemarkFound(address, remark) with no pending entry for the address
\* stores the remark into remarks[address], replacing any remark queued
\* before, issues nothing, and leaves pending and the entries of every
\* other address unchanged.
C19_RemarkQueued ==
    [][LET e == log'[Len(log')]
           a == e.net_address
       IN  (e.type = "RemarkFound" /\ pending[a] = None) =>
             /\ remarks' = [remarks EXCEPT ![a] = e.body]
             /\ pending' = pending
             /\ out'[Len(out')] = NoEmit]_vars

\* Two different remarks arrived for an address without a pending
\* challenge: the second replaced the first.
C19_Witness ==
    \E a \in NetworkAddress :
        /\ Cardinality(Idx(a)) >= 2
        /\ log[PrevFor(a)].type = "RemarkFound"
        /\ log[LastFor(a)].type = "RemarkFound"
        /\ log[PrevFor(a)].body # log[LastFor(a)].body
        /\ pending[a] = None
        /\ remarks[a] = log[LastFor(a)].body

\* What project emitted for the events of address a, in order.
OutFor(a) ==
    [n \in 1..Cardinality(Idx(a)) |->
        out[CHOOSE i \in Idx(a) : Cardinality({k \in Idx(a) : k <= i}) = n]]

\* C20: the entries of an address and what is emitted for it are those
\* obtained by handling the events of that address alone, in their order:
\* events of other addresses neither change them nor influence them, however
\* they are interleaved.
C20_AddressIndependence ==
    \A a \in NetworkAddress :
        LET alone == Replay(EventsFor(a))
        IN  /\ remarks[a] = alone.remarks[a]
            /\ pending[a] = alone.pending[a]
            /\ OutFor(a) = alone.out

\* The events of two addresses were interleaved and both addresses got a
\* completion.
C20_Witness ==
    \E a \in NetworkAddress, b \in NetworkAddress :
        /\ a # b
        /\ CompletedAt(a) # {}
        /\ CompletedAt(b) # {}
        /\ \E i \in Idx(a), j \in Idx(b), k \in Idx(a), l \in Idx(b) :
              i < j /\ j < k /\ k < l

(***************************************************************************)
(* Observations over the manager                                           *)
(***************************************************************************)
\* Image and Additional are the placeholder field kinds.
IsPlaceholder(field) == field.kind \in {"Image", "Additional"}

\* The address is present in the identity table.
Present(a) == a \in DOMAIN identities

\* C5: is_fully_verified(address) is an error iff the address is absent;
\* for a present address it is true iff every non-placeholder FieldStatus
\* of the identity is valid.
C5_IsFullyVerified ==
    ret.op = "is_fully_verified" =>
        LET a == ret.net_address
        IN  /\ (~ret.result.ok) <=> ~Present(a)
            /\ Present(a) =>
                 ret.result.value =
                    (\A i \in 1..Len(identities[a]) :
                        ~IsPlaceholder(identities[a][i].field)
                            => is_valid(identities[a][i]))

\* C6: lookup_addresses(field) lists an address iff the identity stored for
\* that address currently contains that field.
C6_ReverseIndexConsistent ==
    \A f \in IdentityField, a \in NetworkAddress :
        (f \in DOMAIN lookup_addresses /\ a \in lookup_addresses[f])
            <=> (Present(a) /\ f \in FieldsOf(identities[a]))

\* C7: verify_message leaves the identity table and the reverse index as
\* they were, and a second call with the same field and message returns
\* the same set of outcomes.
C7_VerifyMessagePure ==
    [][ret'.op = "verify_message" =>
          /\ identities' = identities
          /\ lookup_addresses' = lookup_addresses
          /\ (ret.op = "verify_message" /\ ret.field = ret'.field /\ ret.arg = ret'.arg)
                => ret'.result = ret.result]_vars

\* verify_message has run on a field that is claimed with an open
\* ExpectMessage challenge and returned an outcome for it.
C7_Witness ==
    /\ ret.op = "verify_message"
    /\ ret.result # {}
    /\ \E o \in ret.result : contains(o.field_status.challenge.expected_message, ret.arg) # Nothing

\* C9: set_verified(address, field) returns true iff the identity at
\* address has the field; when it returns true the field is valid
\* afterwards, and when it returns false the manager state is unchanged.
C9_SetVerified ==
    [][ret'.op = "set_verified" =>
          LET a == ret'.net_address
              has == Present(a) /\ ret'.field \in FieldsOf(identities[a])
          IN  /\ ret'.result = has
              /\ has => is_valid(lookup_field_status(identities', a, ret'.field)[1])
              /\ ~has => (identities' = identities /\ lookup_addresses' = lookup_addresses)]_vars

\* C10: remove_identity(address) on a present address deletes the identity,
\* removes the address from every reverse-index entry and returns true; on
\* an absent address it returns false and changes nothing.
C10_RemoveIdentity ==
    [][ret'.op = "remove_identity" =>
          LET a == ret'.net_address
          IN  IF Present(a)
              THEN /\ a \notin DOMAIN identities'
                   /\ lookup_full_state(identities', lookup_addresses', a).result = Nothing
                   /\ \A f \in DOMAIN lookup_addresses' : a \notin lookup_addresses'[f]
                   /\ ret'.result = TRUE
              ELSE /\ ret'.result = FALSE
                   /\ identities' = identities
                   /\ lookup_addresses' = lookup_addresses]_vars

\* C11: insert_identity on an address that is already present fails (it
\* does not complete normally) and leaves the stored identity and the
\* reverse index unchanged.
C11_DuplicateRejected ==
    [][(ret'.op = "insert_identity" /\ Present(ret'.net_address)) =>
          /\ ret'.result # "unit"
          /\ identities' = identities
          /\ lookup_addresses' = lookup_addresses]_vars

\* C12: update_field reports "network address not found" for an unknown
\* address and "field not found" when the identity has no status for the
\* field of the new status; in both cases the identity table and the
\* reverse index are unchanged.
C12_UpdateFieldErrors ==
    [][ret'.op = "update_field" =>
          LET a == ret'.net_address
              fs == ret'.arg
          IN  /\ ~Present(a) =>
                    /\ ret'.result = Err("network address not found")
                    /\ identities' = identities
                    /\ lookup_addresses' = lookup_addresses
              /\ (Present(a) /\ fs.field \notin FieldsOf(identities[a])) =>
                    /\ ret'.result = Err("field not found")
                    /\ identities' = identities
                    /\ lookup_addresses' = lookup_addresses]_vars

\* update_field was called on a present identity that has statuses, none of
\* them for the field of the new status, and reported the missing field.
C12_Witness ==
    /\ ret.op = "update_field"
    /\ Present(ret.net_address)
    /\ identities[ret.net_address] # <<>>
    /\ ret.arg.field \notin FieldsOf(identities[ret.net_address])
    /\ ret.result = Err("field not found")

\* The addresses whose identity currently claims the field with an
\* ExpectMessage challenge that is not Valid (the first status of the field).
OpenExpectMessage(f) ==
    {a \in NetworkAddress :
        /\ Present(a)
        /\ \E i \in 1..Len(identities[a]) :
              /\ identities[a][i].field = f
              /\ \A j \in 1..(i - 1) : identities[a][j].field # f
              /\ identities[a][i].challenge.type = "ExpectMessage"
              /\ identities[a][i].challenge.status # Valid}

\* C14: verify_message(field, message) returns exactly one outcome, with
\* the address and its current field status, for each address that claims
\* the field with an ExpectMessage challenge that is not Valid, and none
\* for any other address (BackAndForth, CheckDisplayName, already Valid, or
\* not claiming the field).
C14_VerifyMessageRouting ==
    ret.op = "verify_message" =>
        /\ {o.net_address : o \in ret.result} = OpenExpectMessage(ret.field)
        /\ Cardinality(ret.result) = Cardinality(OpenExpectMessage(ret.field))
        /\ \A o \in ret.result :
              /\ o.field_status.field = ret.field
              /\ \E i \in 1..Len(identities[o.net_address]) :
                    identities[o.net_address][i] = o.field_status

\* Two identities claim the routed field: one with an open ExpectMessage
\* challenge, which got the only outcome, and one whose challenge is Valid
\* or of another kind, which got none.
C14_Witness ==
    /\ ret.op = "verify_message"
    /\ Cardinality(ret.result) = 1
    /\ \E a \in NetworkAddress :
          /\ Present(a)
          /\ ret.field \in FieldsOf(identities[a])
          /\ a \notin {o.net_address : o \in ret.result}

(***************************************************************************)
(* Observations over the pure helpers                                      *)
(***************************************************************************)
\* C13: ExpectedMessage.contains(message) returns a matched part iff the
\* expected token is a substring of at least one individual part of the
\* message, and the part it returns is such a part.
C13_ContainsMatchesPart ==
    ret.op = "contains" =>
        LET expected == ret.arg.expected
            message == ret.arg.message
        IN  /\ (ret.result # Nothing)
                 <=> (\E i \in 1..Len(message) : str_contains(message[i], expected))
            /\ (ret.result # Nothing) => str_contains(ret.result[1], expected)

\* C15: is_valid is true for a BackAndForth challenge iff both checks are
\* Valid, and for ExpectMessage and CheckDisplayName iff the status is Valid.
C15_IsValid ==
    ret.op = "is_valid" =>
        LET c == ret.arg.challenge
        IN  CASE c.type = "BackAndForth" ->
                   ret.result = (<<c.first_check_status, c.second_check_status>>
                                    = <<Valid, Valid>>)
              [] c.type \in {"ExpectMessage", "CheckDisplayName"} ->
                   ret.result = (c.status \notin {Invalid, Unconfirmed})

\* is_valid was evaluated on a BackAndForth challenge with exactly one Valid
\* check and said no.
C15_Witness ==
    /\ ret.op = "is_valid"
    /\ ret.arg.challenge.type = "BackAndForth"
    /\ ret.arg.challenge.first_check_status = Valid
    /\ ret.arg.challenge.second_check_status # Valid
    /\ ret.result = FALSE

(***************************************************************************)
(* Rebuilding the correlator from the event log                            *)
(***************************************************************************)
\* Positions of the log that a restart replays: the IdentityFullyVerified
\* and RemarkFound events that no later JudgementGiven of the same address
\* follows.
SinceLastJudgementAt ==
    {i \in 1..Len(log) :
        /\ log[i].type \in {"IdentityFullyVerified", "RemarkFound"}
        /\ \A j \in (i + 1)..Len(log) :
              ~(log[j].type = "JudgementGiven"
                /\ log[j].net_address = log[i].net_address)}

\* The events at those positions, in log order.
RECURSIVE SinceLastJudgementUpTo(_)
SinceLastJudgementUpTo(n) ==
    IF n = 0 THEN <<>>
    ELSE IF n \in SinceLastJudgementAt
         THEN Append(SinceLastJudgementUpTo(n - 1), log[n])
         ELSE SinceLastJudgementUpTo(n - 1)

SinceLastJudgement == SinceLastJudgementUpTo(Len(log))

\* C21: the maps are a function of the processed events (folding project
\* from the empty maps over the log gives the maps held), and folding it over
\* only the IdentityFullyVerified/RemarkFound events that follow the last
\* JudgementGiven of their address gives the same remarks and pending maps
\* as folding it over the complete log.
C21_ReplayRebuilds ==
    LET full == Replay(log)
        short == Replay(SinceLastJudgement)
    IN  /\ full.remarks = remarks
        /\ full.pending = pending
        /\ short.remarks = full.remarks
        /\ short.pending = full.pending

\* An address was judged after events of its own and got a new event since:
\* the replayed log is shorter than the complete one and rebuilds an entry.
C21_Witness ==
    \E a \in NetworkAddress :
        \E i \in Idx(a), j \in Idx(a), k \in Idx(a) :
            /\ i < j /\ j < k
            /\ log[i].type \in {"IdentityFullyVerified", "RemarkFound"}
            /\ log[j].type = "JudgementGiven"
            /\ k \in SinceLastJudgementAt
            /\ Len(SinceLastJudgement) < Len(log)
            /\ (remarks[a] # None \/ pending[a] # None)

(***************************************************************************)
(* Validity of the checks over the manager operations                      *)
(***************************************************************************)
\* The validities a field status carries: one per check of its challenge.
Checks(fs) ==
    IF fs.challenge.type = "BackAndForth"
    THEN <<fs.challenge.first_check_status, fs.challenge.second_check_status>>
    ELSE <<fs.challenge.status>>

\* A check in state old may be in state new afterwards: Valid and Invalid
\* are kept, Unconfirmed may become anything.
Monotone(old, new) ==
    /\ old = Valid => new = Valid
    /\ old = Invalid => new # Unconfirmed

\* C22: every check of an identity that insert_identity has just stored is
\* Unconfirmed, and update_field, set_verified and verify_message never move
\* a check of a stored identity from Valid or Invalid back to Unconfirmed,
\* nor from Valid to Invalid.
C22_ValidityMonotone ==
    [][ /\ ret'.op = "insert_identity"
            => \A i \in 1..Len(identities'[ret'.net_address]) :
                  LET c == Checks(identities'[ret'.net_address][i])
                  IN  \A k \in 1..Len(c) : c[k] = Unconfirmed
        /\ ret'.op \in {"update_field", "set_verified", "verify_message"}
            => \A a \in DOMAIN identities :
                  a \in DOMAIN identities'
                    => \A i \in 1..Len(identities[a]) :
                          LET old == identities[a][i]
                              j == FindField(identities'[a], old.field)
                          IN  (j # 0 /\ identities'[a][j].challenge.type = old.challenge.type)
                                => \A k \in 1..Len(Checks(old)) :
                                      Monotone(Checks(old)[k], Checks(identities'[a][j])[k])
      ]_vars

(***************************************************************************)
(* Effect of update_field                                                  *)
(***************************************************************************)
\* Positions of the statuses of a field list whose field is of the given
\* kind (Matrix, Email, Image, ...).
OfKind(fields, kind) ==
    {i \in 1..Len(fields) : fields[i].field.kind = kind}

\* C23: when the address is stored and has a status for the field kind of
\* new_status, update_field(address, new_status) succeeds and puts new_status
\* in the place of that status (also when new_status carries another value
\* of that kind); the identity keeps the number and order of its statuses,
\* its other statuses are unchanged and so is every other identity.
C23_UpdateFieldEffect ==
    [][ ( /\ ret'.op = "update_field"
          /\ ret'.net_address \in DOMAIN identities
          /\ OfKind(identities[ret'.net_address], ret'.arg.field.kind) # {} )
        => LET a == ret'.net_address
               hits == OfKind(identities[a], ret'.arg.field.kind)
               i == CHOOSE x \in hits : \A y \in hits : x <= y
           IN  /\ ret'.result = Ok("unit")
               /\ identities' = [identities EXCEPT ![a][i] = ret'.arg]
      ]_vars

(***************************************************************************)
(* Uniqueness of the fields of an identity                                 *)
(***************************************************************************)
\* C24: in every reachable manager state no two statuses of a stored
\* identity share a field kind, so every field of an identity has exactly
\* one status.
C24_FieldUniqueness ==
    \A a \in DOMAIN identities :
        \A i \in 1..Len(identities[a]), j \in 1..Len(identities[a]) :
            i # j => identities[a][i].field.kind # identities[a][j].field.kind

(***************************************************************************)
(* Confidentiality of the reply token                                      *)
(***************************************************************************)
\* The table ids with the reply token of every BackAndForth challenge that
\* is not yet valid replaced by t: the state the same calls lead to when the
\* service drew t for those challenges.
WithTokenBack(ids, t) ==
    [a \in DOMAIN ids |->
        [i \in 1..Len(ids[a]) |->
            LET fs == ids[a][i]
            IN  IF fs.challenge.type = "BackAndForth" /\ ~is_valid(fs)
                THEN [fs EXCEPT !.challenge.expected_message_back = t]
                ELSE fs]]

\* A lookup_full_state result as it leaves the service: nothing, or the
\* serialized state.
SerializeOption(o) ==
    [i \in 1..Len(o) |-> SerializeIdentityState(o[i])]

InConnectLoop == pc \in {"tick", "connect"}

\* run is past the `break` of the connect loop.
Connected == pc \in {"matrix_setup", "spawn_manager", "spawn_connector",
                     "spawn_matrix", "idle"}

\* The attempts made so far all failed.
AllFailed == \A i \in 1..Len(attempts) : ~attempts[i]

\* The last attempt succeeded and it is the only one that did.
FirstSuccessIsLast ==
    /\ attempts # <<>>
    /\ attempts[Len(attempts)]
    /\ \A i \in 1..(Len(attempts) - 1) : ~attempts[i]

\* C26: the connect loop makes at most three connection attempts and always
\* ends: it is left on the first attempt that succeeds, or run panics right
\* after the third failure in a row; the Matrix client is set up and the
\* manager, connector and Matrix tasks are spawned only after an attempt
\* succeeded.
C26_ConnectRetry ==
    /\ [](/\ Len(attempts) <= 3
          /\ InConnectLoop => (AllFailed /\ Len(attempts) = counter)
          /\ pc = "panicked" => (AllFailed /\ Len(attempts) = 3)
          /\ Connected => FirstSuccessIsLast
          /\ (\E t \in Tasks : tasks[t] # "unspawned") => FirstSuccessIsLast)
    /\ (InConnectLoop ~> ~InConnectLoop)

\* The watcher was reached on the third attempt and the three tasks were
\* started.
C26_Witness ==
    /\ attempts = <<FALSE, FALSE, TRUE>>
    /\ pc = "idle"
    /\ \A t \in Tasks : tasks[t] = "running"

====
